---- MODULE Spec2Model ----
(***************************************************************************)
(* Model of the recommendation engine (src/unnamed/part_000) over the      *)
(* entities of src/schema.ts.                                              *)
(*                                                                         *)
(* Numbers are JavaScript numbers scaled by 1000 (0.25 is 250, a MAPE of   *)
(* 10 is 10000), so every threshold of the source is an integer.  A value  *)
(* of the untyped `data` payload is a record [t, v]: t is its JavaScript   *)
(* type and v its numeric content.  Wall-clock time is an integer tick.    *)
(***************************************************************************)
EXTENDS Integers, Sequences, FiniteSets, TLC

VARIABLES
    analysisResults,    \* input.analysisResults
    chatHistory,        \* input.chatHistory
    currentSeason,      \* input.currentSeason ("none" when absent)
    pc,                 \* position inside generateRecommendations / the call under test
    clock,              \* the wall clock read by Date.now() and new Date()
    sortedResults,      \* const sortedResults
    businessRecs,       \* const businessRecs and the extractor's loop record
    forecastRecs,       \* const forecastRecs
    optimizationRecs,   \* const optimizationRecs
    chatRecs,           \* const chatRecs
    seasonalRecs,       \* const seasonalRecs
    allRecommendations, \* let allRecommendations
    recommendationSet,  \* the returned RecommendationSet
    sortRet             \* the value returned by a direct call of sortByRecency

vars == <<analysisResults, chatHistory, currentSeason, pc, clock, sortedResults,
          businessRecs, forecastRecs, optimizationRecs, chatRecs, seasonalRecs,
          allRecommendations, recommendationSet, sortRet>>

-----------------------------------------------------------------------------
(* Bounds of the model *)

MaxClock == 2
MaxSortLen == 3

(* Number of clock ticks in one calendar day of the model's clock *)
TicksPerDay == 2

-----------------------------------------------------------------------------
(* JavaScript values *)

Undefined == [t |-> "undefined", v |-> 0]
JsNull == [t |-> "null", v |-> 0]
JsNaN == [t |-> "NaN", v |-> 0]
PosInfinity == [t |-> "Infinity", v |-> 1]
NegInfinity == [t |-> "Infinity", v |-> -1]
Num(n) == [t |-> "number", v |-> n]
NumStr(n) == [t |-> "numstr", v |-> n]
TextStr == [t |-> "string", v |-> 0]
JsBool(b) == [t |-> "boolean", v |-> IF b THEN 1 ELSE 0]

Truthy(x) ==
    CASE x.t = "number" -> x.v # 0
      [] x.t = "numstr" -> TRUE
      [] x.t = "string" -> TRUE
      [] x.t = "boolean" -> x.v = 1
      [] x.t = "Infinity" -> TRUE
      [] OTHER -> FALSE

ToNumber(x) ==
    CASE x.t = "number" -> x
      [] x.t = "numstr" -> Num(x.v)
      [] x.t = "boolean" -> Num(1000 * x.v)
      [] x.t = "null" -> Num(0)
      [] x.t = "Infinity" -> x
      [] OTHER -> JsNaN

IsFinite(n) == n.t = "number"

JsGt(x, c) ==
    LET n == ToNumber(x)
    IN  \/ n.t = "number" /\ n.v > c
        \/ n.t = "Infinity" /\ n.v > 0

JsLt(x, c) ==
    LET n == ToNumber(x)
    IN  \/ n.t = "number" /\ n.v < c
        \/ n.t = "Infinity" /\ n.v < 0

JsSub(x, y) ==
    LET a == ToNumber(x)
        b == ToNumber(y)
    IN  CASE a.t = "NaN" \/ b.t = "NaN" -> JsNaN
          [] a.t = "Infinity" /\ b.t = "Infinity" ->
                IF a.v = b.v THEN JsNaN ELSE a
          [] a.t = "Infinity" -> a
          [] b.t = "Infinity" -> [t |-> "Infinity", v |-> 0 - b.v]
          [] OTHER -> Num(a.v - b.v)

JsAdd(x, y) ==
    LET a == ToNumber(x)
        b == ToNumber(y)
    IN  CASE a.t = "NaN" \/ b.t = "NaN" -> JsNaN
          [] a.t = "Infinity" /\ b.t = "Infinity" ->
                IF a.v = b.v THEN a ELSE JsNaN
          [] a.t = "Infinity" -> a
          [] b.t = "Infinity" -> b
          [] OTHER -> Num(a.v + b.v)

Sign(n) == IF n > 0 THEN 1 ELSE IF n < 0 THEN -1 ELSE 0

Abs(n) == IF n < 0 THEN 0 - n ELSE n

(* a / b of two finite numbers, kept exact as the quotient num / den, den > 0 *)
JsDiv(x, y) ==
    LET a == ToNumber(x)
        b == ToNumber(y)
    IN  CASE a.t # "number" \/ b.t # "number" ->
                [t |-> "NaN", num |-> 0, den |-> 1]
          [] b.v = 0 /\ a.v = 0 -> [t |-> "NaN", num |-> 0, den |-> 1]
          [] b.v = 0 -> [t |-> "Infinity", num |-> Sign(a.v), den |-> 1]
          [] OTHER -> [t |-> "number", num |-> a.v * Sign(b.v), den |-> Abs(b.v)]

(* q > c and q < c for a quotient q and a threshold c in thousandths *)
QuotGt(q, c) ==
    \/ q.t = "number" /\ q.num * 1000 > c * q.den
    \/ q.t = "Infinity" /\ q.num > 0

QuotLt(q, c) ==
    \/ q.t = "number" /\ q.num * 1000 < c * q.den
    \/ q.t = "Infinity" /\ q.num < 0

QuotAbs(q) == [q EXCEPT !.num = Abs(q.num)]

(* Number.prototype.toFixed(1): the text of a number, in tenths, rounded half
   away from zero; "NaN" and "Infinity" print as themselves. *)
RoundDiv(n, d) == Sign(n) * ((2 * Abs(n) + d) \div (2 * d))

(* (q * 100).toFixed(1) of a quotient: a percentage in tenths *)
PercentFixed1(q) ==
    IF q.t = "number"
    THEN [t |-> "number", v |-> RoundDiv(q.num * 1000, q.den)]
    ELSE [t |-> q.t, v |-> q.num]

(* (x * 100).toFixed(1) of a payload value: x is in thousandths, so x * 100
   is already in tenths *)
TimesHundredFixed1(x) ==
    LET n == ToNumber(x)
    IN  [t |-> n.t, v |-> n.v]

(* x.toFixed(d) on a payload value: only a number has the method *)
HasToFixed(x) == x.t \in {"number", "NaN", "Infinity"}

-----------------------------------------------------------------------------
(* Array.prototype.sort as the runtime performs it on a short array: the
   initial run is found (and reversed when strictly descending), the rest is
   placed by binary insertion.  A comparator result of NaN counts as 0. *)

GetTime(created_at) ==
    CASE created_at.k = "null" -> Num(0)
      [] created_at.k = "date" -> Num(created_at.ms)
      [] OTHER -> JsNaN

NumberOrZero(n) == IF n.t = "number" THEN n.v ELSE IF n.t = "Infinity" THEN n.v ELSE 0

DayOf(t) == t \div TicksPerDay

Compare(kind, a, b) ==
    CASE kind = "recency" -> NumberOrZero(JsSub(GetTime(b.created_at), GetTime(a.created_at)))
      [] kind = "amount" -> NumberOrZero(JsSub(b.v, a.v))
      [] kind = "value" -> NumberOrZero(JsSub(b.v, a.v))
      [] kind = "createdAt" -> b.createdAt - a.createdAt
      [] kind = "confidence" ->
            IF DayOf(a.createdAt) = DayOf(b.createdAt)
            THEN b.confidence - a.confidence
            ELSE 0

Reverse(s) == [i \in 1..Len(s) |-> s[Len(s) + 1 - i]]

RECURSIVE RunEnd(_, _, _, _)
RunEnd(arr, kind, desc, idx) ==
    IF idx > Len(arr)
    THEN Len(arr)
    ELSE LET order == Compare(kind, arr[idx], arr[idx - 1])
         IN  IF (desc /\ order >= 0) \/ (~desc /\ order < 0)
             THEN idx - 1
             ELSE RunEnd(arr, kind, desc, idx + 1)

RECURSIVE BinarySearch(_, _, _, _, _)
BinarySearch(arr, kind, pivot, left, right) ==
    IF left >= right
    THEN left
    ELSE LET mid == left + ((right - left) \div 2)
         IN  IF Compare(kind, pivot, arr[mid]) < 0
             THEN BinarySearch(arr, kind, pivot, left, mid)
             ELSE BinarySearch(arr, kind, pivot, mid + 1, right)

RECURSIVE BinaryInsertionSort(_, _, _)
BinaryInsertionSort(arr, kind, start) ==
    IF start > Len(arr)
    THEN arr
    ELSE LET pivot == arr[start]
             left == BinarySearch(arr, kind, pivot, 1, start)
             placed == SubSeq(arr, 1, left - 1) \o <<pivot>>
                       \o SubSeq(arr, left, start - 1)
                       \o SubSeq(arr, start + 1, Len(arr))
         IN  BinaryInsertionSort(placed, kind, start + 1)

ArraySort(arr, kind) ==
    IF Len(arr) < 2
    THEN arr
    ELSE LET desc == Compare(kind, arr[2], arr[1]) < 0
             run == RunEnd(arr, kind, desc, 3)
             made == IF desc
                     THEN Reverse(SubSeq(arr, 1, run)) \o SubSeq(arr, run + 1, Len(arr))
                     ELSE arr
         IN  BinaryInsertionSort(made, kind, run + 1)

Slice(arr, n) == SubSeq(arr, 1, IF Len(arr) < n THEN Len(arr) ELSE n)

RECURSIVE Filter(_, _, _)
Filter(arr, kind, arg) ==
    IF arr = <<>>
    THEN <<>>
    ELSE LET x == Head(arr)
             keep == CASE kind = "type" -> x.type = arg
                       [] kind = "role" -> x.role = arg
                       [] kind = "positive" -> JsGt(x.v, 0)
                       [] kind = "binding" ->
                             \/ x.v.t = "number" /\ x.v.v = 0
                             \/ LET n == ToNumber(x.v)
                                IN  n.t = "number" /\ Abs(n.v) < 1
         IN  (IF keep THEN <<x>> ELSE <<>>) \o Filter(Tail(arr), kind, arg)

-----------------------------------------------------------------------------
(* sortByRecency: `ret` is the returned array, `results` the caller's array
   after the call (the sort acts on the spread copy). *)

(* variant: the sort acts on the caller's array *)
sortByRecencyInPlace(results) ==
    [ret |-> ArraySort(results, "recency"), results |-> ArraySort(results, "recency")]

sortByRecency(results) ==
    [ret |-> ArraySort(results, "recency"), results |-> results]

-----------------------------------------------------------------------------
(* Payloads.  An array-valued field is [k, items] with k "array", "undefined"
   (absent) or "other" (present, not an array); an entry of such an array is
   [k, name, v] with k "object", "null" or "primitive", v being the one numeric
   field the engine reads from it (amount, forecast, value, slack). *)

NoArray == [k |-> "undefined", items |-> <<>>]
NotArray == [k |-> "other", items |-> <<>>]
Arr(items) == [k |-> "array", items |-> items]
Entry(name, v) == [k |-> "object", name |-> name, v |-> v]
NullEntry == [k |-> "null", name |-> "", v |-> Undefined]
PrimitiveEntry == [k |-> "primitive", name |-> "undefined", v |-> Undefined]

HasNullEntry(items) == \E i \in 1..Len(items) : items[i].k = "null"

EmptyData ==
    [k |-> "object", businessName |-> "undefined", productName |-> "undefined",
     name |-> "undefined", profitMargin |-> Undefined, roi |-> Undefined,
     breakEvenUnits |-> Undefined, monthlySalesVolume |-> Undefined,
     operationalCosts |-> NoArray, forecasted |-> NoArray, historical |-> NoArray,
     mape |-> Undefined, feasible |-> Undefined, objectiveValue |-> Undefined,
     variables |-> NoArray, constraints |-> NoArray]

NullData == [EmptyData EXCEPT !.k = "null"]

(* Program constants *)
RecentOverall == 10
RecentPerType == 3
RecentMessages == 10
MaxRecommendations == 10
TopRecs == 5

-----------------------------------------------------------------------------
(* Recommendation items.  id is the prefix and what follows it: the source
   analysis id, or the clock read by Date.now() (stamped when the clock is
   read).  confidence is in hundredths.  description keeps the template's
   text and what is interpolated into it. *)

NoRatio == [t |-> "none", v |-> 0]

Description(text, name, nums, names) ==
    [text |-> text, name |-> name, nums |-> nums, names |-> names]

Item(prefix, n, type, title, description, confidence, ratio, source) ==
    [id |-> [prefix |-> prefix, of |-> "analysis", n |-> n],
     type |-> type, title |-> title, description |-> description,
     confidence |-> confidence,
     data |-> [ratio |-> ratio, related |-> <<>>],
     source |-> source, createdAt |-> 0]

QuotValue(q) == [t |-> q.t, v |-> IF q.t = "number" THEN RoundDiv(q.num * 1000, q.den) ELSE q.num]

-----------------------------------------------------------------------------------------------------------------------------------------------------
(* A step of a forEach body gives [threw, items]: whether a TypeError left
   it, and what it pushed.  Steps in sequence: a step that throws ends the
   body. *)

NoItems == [threw |-> FALSE, items |-> <<>>]
Thrown == [threw |-> TRUE, items |-> <<>>]
Pushed(item) == [threw |-> FALSE, items |-> <<item>>]

Then(a, b) ==
    IF a.threw THEN a ELSE [threw |-> b.threw, items |-> a.items \o b.items]

(* the body as a whole: `data` is the payload object after it *)
Body(result, steps, after) ==
    IF result.data.k = "null"
    THEN [threw |-> TRUE, items |-> <<>>, data |-> result.data]
    ELSE [threw |-> steps.threw, items |-> steps.items, data |-> after]

RECURSIVE Sum(_, _)
Sum(acc, entries) ==
    IF entries = <<>>
    THEN acc
    ELSE Sum(JsAdd(acc, Head(entries).v), Tail(entries))

-----------------------------------------------------------------------------
(* extractBusinessRecommendations: the body of its forEach *)

(* variant: the confidence follows the profit margin *)
businessProfitStepScaled(result) ==
    IF Truthy(result.data.profitMargin) /\ JsGt(result.data.profitMargin, 250)
    THEN Pushed(Item("biz-profit", result.id, "business",
                     "Profitable Business Model",
                     Description("shows a strong profit margin of %",
                                 result.data.businessName,
                                 <<TimesHundredFixed1(result.data.profitMargin)>>, <<>>),
                     ToNumber(result.data.profitMargin).v \div 10, NoRatio, "analysis"))
    ELSE NoItems

businessProfitStep(result) ==
    IF Truthy(result.data.profitMargin) /\ JsGt(result.data.profitMargin, 250)
    THEN Pushed(Item("biz-profit", result.id, "business",
                     "Profitable Business Model",
                     Description("shows a strong profit margin of %",
                                 result.data.businessName,
                                 <<TimesHundredFixed1(result.data.profitMargin)>>, <<>>),
                     80, NoRatio, "analysis"))
    ELSE NoItems

businessRoiStep(result) ==
    IF Truthy(result.data.roi) /\ JsGt(result.data.roi, 150)
    THEN Pushed(Item("biz-roi", result.id, "business",
                     "Strong Return on Investment",
                     Description("shows a % ROI", result.data.businessName,
                                 <<TimesHundredFixed1(result.data.roi)>>, <<>>),
                     75, NoRatio, "analysis"))
    ELSE NoItems

businessCostItem(result, highestCost, costPercentage) ==
    IF QuotGt(costPercentage, 300)
    THEN Pushed(Item("biz-cost", result.id, "resource",
                     "Cost Reduction Opportunity",
                     Description("represents % of your operational costs",
                                 highestCost.name,
                                 <<PercentFixed1(costPercentage)>>, <<>>),
                     70, QuotValue(costPercentage), "analysis"))
    ELSE NoItems

businessHighestCost(result, sortedCosts) ==
    businessCostItem(result, sortedCosts[1],
                     JsDiv(sortedCosts[1].v, Sum(Num(0), sortedCosts)))

businessCostStep(result) ==
    IF result.data.operationalCosts.k # "array"
       \/ result.data.operationalCosts.items = <<>>
    THEN NoItems
    ELSE IF HasNullEntry(result.data.operationalCosts.items)
    THEN Thrown
    ELSE businessHighestCost(result,
                             ArraySort(result.data.operationalCosts.items, "amount"))

(* data.operationalCosts after the cost step: the sort acts on the spread copy *)
operationalCostsAfter(result) == result.data.operationalCosts

businessBreakEvenItem(result, breakEvenRatio) ==
    IF QuotLt(breakEvenRatio, 500)
    THEN Pushed(Item("biz-breakeven", result.id, "business",
                     "Favorable Break-Even Point",
                     Description("You reach break-even at just % of your monthly sales volume",
                                 "", <<PercentFixed1(breakEvenRatio)>>, <<>>),
                     85, QuotValue(breakEvenRatio), "analysis"))
    ELSE NoItems

businessBreakEvenStep(result) ==
    IF Truthy(result.data.breakEvenUnits) /\ Truthy(result.data.monthlySalesVolume)
    THEN businessBreakEvenItem(result, JsDiv(result.data.breakEvenUnits,
                                             result.data.monthlySalesVolume))
    ELSE NoItems

businessForEach(result) ==
    Body(result,
         Then(businessProfitStep(result),
              Then(businessRoiStep(result),
                   Then(businessCostStep(result), businessBreakEvenStep(result)))),
         [result.data EXCEPT !.operationalCosts = operationalCostsAfter(result)])

-----------------------------------------------------------------------------
(* extractForecastRecommendations: the body of its forEach *)

forecastGrowthItem(result, firstForecast, lastForecast, growthRate) ==
    IF QuotGt(growthRate, 100)
    THEN Pushed(Item("forecast-growth", result.id, "market",
                     "Growing Demand Trend",
                     Description("is projected to grow by %", result.data.productName,
                                 <<PercentFixed1(growthRate)>>, <<>>),
                     75, QuotValue(growthRate), "analysis"))
    ELSE IF QuotLt(growthRate, -100)
    THEN Pushed(Item("forecast-decline", result.id, "market",
                     "Declining Demand Alert",
                     Description("is projected to decline by %", result.data.productName,
                                 <<PercentFixed1(QuotAbs(growthRate))>>, <<>>),
                     75, QuotValue(QuotAbs(growthRate)), "analysis"))
    ELSE NoItems

forecastGrowthRate(result, firstForecast, lastForecast) ==
    forecastGrowthItem(result, firstForecast, lastForecast,
                       JsDiv(JsSub(lastForecast, firstForecast), firstForecast))

forecastGrowthStep(result) ==
    IF result.data.forecasted.k # "array" \/ Len(result.data.forecasted.items) <= 1
    THEN NoItems
    ELSE IF \/ result.data.forecasted.items[1].k = "null"
            \/ result.data.forecasted.items[Len(result.data.forecasted.items)].k = "null"
    THEN Thrown
    ELSE forecastGrowthRate(result, result.data.forecasted.items[1].v,
                            result.data.forecasted.items[Len(result.data.forecasted.items)].v)

(* v > avg * 1.2 with avg = sum / n: both sides multiplied by 10 * n *)
IsPeak(v, sum, n) ==
    /\ n > 0
    /\ sum.t = "number"
    /\ ToNumber(v).t = "number"
    /\ 10 * n * ToNumber(v).v > 12 * sum.v

forecastPeaks(values, sum) ==
    Cardinality({i \in 1..Len(values) : IsPeak(values[i].v, sum, Len(values))})

forecastSeasonalItem(result, peaks) ==
    IF peaks >= 2
    THEN Pushed(Item("forecast-seasonal", result.id, "market",
                     "Seasonal Demand Pattern",
                     Description("shows seasonal demand patterns with peak periods",
                                 result.data.productName,
                                 <<[t |-> "number", v |-> peaks]>>, <<>>),
                     70, NoRatio, "pattern"))
    ELSE NoItems

forecastSeasonalityStep(result) ==
    IF result.data.historical.k # "array"
    THEN NoItems
    ELSE IF HasNullEntry(result.data.historical.items)
    THEN Thrown
    ELSE forecastSeasonalItem(result,
                              forecastPeaks(result.data.historical.items,
                                            Sum(Num(0), result.data.historical.items)))

(* mape.toFixed(1): mape is in thousandths *)
MapeFixed1(mape) == [t |-> mape.t, v |-> RoundDiv(mape.v, 100)]

forecastAccuracyItem(result, mape) ==
    IF Truthy(mape) /\ JsLt(mape, 10000)
    THEN IF ~HasToFixed(mape)
         THEN Thrown
         ELSE Pushed(Item("forecast-accuracy", result.id, "business",
                          "High Forecast Reliability",
                          Description("forecast has a high accuracy (MAPE: %)",
                                      result.data.productName, <<MapeFixed1(mape)>>, <<>>),
                          80, NoRatio, "analysis"))
    ELSE IF Truthy(mape) /\ JsGt(mape, 20000)
    THEN IF ~HasToFixed(mape)
         THEN Thrown
         ELSE Pushed(Item("forecast-inaccuracy", result.id, "business",
                          "Forecast Uncertainty Alert",
                          Description("forecast has a higher error rate (MAPE: %)",
                                      result.data.productName, <<MapeFixed1(mape)>>, <<>>),
                          70, NoRatio, "analysis"))
    ELSE NoItems

forecastAccuracyStep(result) == forecastAccuracyItem(result, result.data.mape)

forecastForEach(result) ==
    Body(result,
         Then(forecastGrowthStep(result),
              Then(forecastSeasonalityStep(result), forecastAccuracyStep(result))),
         result.data)

-----------------------------------------------------------------------------
(* extractOptimizationRecommendations: the body of its forEach *)

optFeasibleItem(result, objectiveValue) ==
    IF Truthy(objectiveValue) /\ ~HasToFixed(objectiveValue)
    THEN Thrown
    ELSE Pushed(Item("opt-feasible", result.id, "resource",
                     "Optimal Resource Allocation",
                     Description(IF Truthy(objectiveValue)
                                 THEN "has a feasible solution with an objective value of"
                                 ELSE "has a feasible solution with optimized resource allocation",
                                 result.data.name,
                                 IF Truthy(objectiveValue)
                                 THEN <<[t |-> objectiveValue.t,
                                         v |-> RoundDiv(objectiveValue.v, 10)]>>
                                 ELSE <<>>,
                                 <<>>),
                     90, NoRatio, "analysis"))

optFeasibleStep(result) == optFeasibleItem(result, result.data.objectiveValue)

optResourcesItem(result, significantVariables) ==
    IF Len(significantVariables) = 0
    THEN NoItems
    ELSE IF \E i \in 1..Len(significantVariables) : ~HasToFixed(significantVariables[i].v)
    THEN Thrown
    ELSE Pushed(Item("opt-resources", result.id, "resource",
                     "Key Resource Allocation",
                     Description("Focus on these resources for optimal results:",
                                 "",
                                 [i \in 1..Len(significantVariables) |->
                                    [t |-> "number",
                                     v |-> RoundDiv(significantVariables[i].v.v, 10)]],
                                 [i \in 1..Len(significantVariables) |->
                                    significantVariables[i].name]),
                     80, NoRatio, "analysis"))

optVariablesStep(result) ==
    IF result.data.variables.k # "array"
    THEN NoItems
    ELSE IF HasNullEntry(result.data.variables.items)
    THEN Thrown
    ELSE optResourcesItem(result,
            Slice(ArraySort(Filter(result.data.variables.items, "positive", ""), "value"), 3))

optBottlenecksItem(result, binding) ==
    IF Len(binding) > 0
    THEN Pushed(Item("opt-constraints", result.id, "business",
                     "Resource Bottlenecks Identified",
                     Description("These factors are limiting your optimization:",
                                 "", <<>>, [i \in 1..Len(binding) |-> binding[i].name]),
                     85, NoRatio, "analysis"))
    ELSE NoItems

optConstraintsStep(result) ==
    IF result.data.constraints.k # "array"
    THEN NoItems
    ELSE IF HasNullEntry(result.data.constraints.items)
    THEN Thrown
    ELSE optBottlenecksItem(result, Filter(result.data.constraints.items, "binding", ""))

optInfeasibleStep(result) ==
    Pushed(Item("opt-infeasible", result.id, "business",
                "Resource Constraints Too Tight",
                Description("optimization model doesn't have a feasible solution",
                            result.data.name, <<>>, <<>>),
                90, NoRatio, "analysis"))

(* variant: a plain else in place of else if (data.feasible === false) *)
optimizationStepsNoElse(result) ==
    IF result.data.feasible = JsBool(TRUE)
    THEN Then(optFeasibleStep(result),
              Then(optVariablesStep(result), optConstraintsStep(result)))
    ELSE optInfeasibleStep(result)

optimizationSteps(result) ==
    IF result.data.feasible = JsBool(TRUE)
    THEN Then(optFeasibleStep(result),
              Then(optVariablesStep(result), optConstraintsStep(result)))
    ELSE IF result.data.feasible = JsBool(FALSE)
    THEN optInfeasibleStep(result)
    ELSE NoItems

optimizationForEach(result) == Body(result, optimizationSteps(result), result.data)

-----------------------------------------------------------------------------
(* The three analysis extractors: filter by type, sort by recency, keep the
   most recent three, run the forEach.  The record keeps the extractor's local
   `recommendations` array (what was pushed, also when a TypeError ended the
   loop), `counts` (how many items each processed analysis pushed), `recent`
   (the analyses the loop was given) and `after` (their payloads after it). *)

ForEachBody(kind, r) ==
    CASE kind = "business" -> businessForEach(r)
      [] kind = "forecast" -> forecastForEach(r)
      [] kind = "optimization" -> optimizationForEach(r)

LoopEnd == [threw |-> FALSE, recs |-> <<>>, counts |-> <<>>, after |-> <<>>]

LoopThrew(b) ==
    [threw |-> TRUE, recs |-> b.items, counts |-> <<Len(b.items)>>, after |-> <<b.data>>]

LoopNext(b, rest) ==
    [threw |-> rest.threw, recs |-> b.items \o rest.recs,
     counts |-> <<Len(b.items)>> \o rest.counts, after |-> <<b.data>> \o rest.after]

RECURSIVE ForEach(_, _)
ForEachStep(b, kind, rest) ==
    IF b.threw THEN LoopThrew(b) ELSE LoopNext(b, ForEach(kind, rest))

ForEach(kind, list) ==
    IF list = <<>>
    THEN LoopEnd
    ELSE ForEachStep(ForEachBody(kind, Head(list)), kind, Tail(list))

Extraction(recent, loop) ==
    [threw |-> loop.threw, recommendations |-> loop.recs, counts |-> loop.counts,
     recent |-> recent, after |-> loop.after]

Extract(kind, recent) == Extraction(recent, ForEach(kind, recent))

NotRun ==
    [threw |-> FALSE, recommendations |-> <<>>, counts |-> <<>>,
     recent |-> <<>>, after |-> <<>>]

extractBusinessRecommendations(results) ==
    Extract("business",
            Slice(sortByRecency(Filter(results, "type", "business_feasibility")).ret,
                  RecentPerType))

extractForecastRecommendations(results) ==
    Extract("forecast",
            Slice(sortByRecency(Filter(results, "type", "demand_forecast")).ret,
                  RecentPerType))

extractOptimizationRecommendations(results) ==
    Extract("optimization",
            Slice(sortByRecency(Filter(results, "type", "optimization")).ret,
                  RecentPerType))

-----------------------------------------------------------------------------
(* extractChatInsights.  A message's content is the sequence of the pieces
   that split(/[.!?]+/) gives; a piece is [text, kws]: its trimmed text and
   the keywords its lowercased text includes.  No keyword holds one of the
   separators, so the content includes a keyword exactly when a piece does. *)

keywordMap ==
    << <<"increase", "growth">>, <<"expand", "growth">>, <<"grow", "growth">>,
       <<"profit", "profit">>, <<"revenue", "profit">>,
       <<"cost", "cost">>, <<"expense", "cost">>, <<"save", "cost">>,
       <<"risk", "risk">>,
       <<"market", "market">>, <<"demand", "market">>, <<"customer", "market">>,
       <<"season", "seasonal">>, <<"weather", "seasonal">>, <<"climate", "seasonal">>,
       <<"resource", "resource">>, <<"water", "resource">>, <<"soil", "resource">>,
       <<"fertilizer", "resource">>, <<"pest", "resource">>, <<"equipment", "resource">> >>

categories == <<"growth", "profit", "cost", "risk", "market", "seasonal", "resource">>

Includes(content, keyword) == \E i \in 1..Len(content) : keyword \in content[i].kws

Trim(piece) == piece.text

RECURSIVE RelevantSentences(_, _)
RelevantSentences(sentences, keyword) ==
    IF sentences = <<>>
    THEN <<>>
    ELSE (IF keyword \in Head(sentences).kws THEN <<Head(sentences)>> ELSE <<>>)
         \o RelevantSentences(Tail(sentences), keyword)

(* what one message pushes to the bucket of `category`, keyword by keyword *)
RECURSIVE MessagePushes(_, _, _)
MessagePushes(message, category, k) ==
    IF k > Len(keywordMap)
    THEN <<>>
    ELSE LET keyword == keywordMap[k][1]
             relevantSentences == RelevantSentences(message.content, keyword)
         IN  (IF /\ keywordMap[k][2] = category
                 /\ Includes(message.content, keyword)
                 /\ Len(relevantSentences) > 0
              THEN <<Trim(relevantSentences[1])>>
              ELSE <<>>)
             \o MessagePushes(message, category, k + 1)

RECURSIVE Bucket(_, _)
Bucket(messages, category) ==
    IF messages = <<>>
    THEN <<>>
    ELSE MessagePushes(Head(messages), category, 1) \o Bucket(Tail(messages), category)

ChatType(category) ==
    CASE category \in {"growth", "profit"} -> "business"
      [] category \in {"market", "seasonal"} -> "market"
      [] category \in {"resource", "cost"} -> "resource"
      [] OTHER -> "business"

ChatTitle(category) ==
    CASE category = "growth" -> "Growth Opportunity"
      [] category = "profit" -> "Profit Enhancement"
      [] category = "cost" -> "Cost Saving Opportunity"
      [] category = "risk" -> "Risk Management"
      [] category = "market" -> "Market Intelligence"
      [] category = "seasonal" -> "Seasonal Planning"
      [] category = "resource" -> "Resource Optimization"
      [] OTHER -> "AI Insight"

(* variant: the id is built without the category *)
ChatItemNoCategory(category, sentences) ==
    [id |-> [prefix |-> "chat", of |-> "now", n |-> 0],
     type |-> ChatType(category), title |-> ChatTitle(category),
     description |-> Description(sentences[1], "", <<>>, <<>>),
     confidence |-> 60,
     data |-> [ratio |-> NoRatio, related |-> sentences],
     source |-> "chat", createdAt |-> 0]

ChatItem(category, sentences) ==
    [id |-> [prefix |-> "chat-" \o category, of |-> "now", n |-> 0],
     type |-> ChatType(category), title |-> ChatTitle(category),
     description |-> Description(sentences[1], "", <<>>, <<>>),
     confidence |-> 60,
     data |-> [ratio |-> NoRatio, related |-> sentences],
     source |-> "chat", createdAt |-> 0]

ChatPush(category, sentences) ==
    IF Len(sentences) > 0 THEN <<ChatItem(category, sentences)>> ELSE <<>>

RECURSIVE ChatItems(_, _)
ChatItems(recentMessages, c) ==
    IF c > Len(categories)
    THEN <<>>
    ELSE ChatPush(categories[c], Bucket(recentMessages, categories[c]))
         \o ChatItems(recentMessages, c + 1)

(* `messages` is the caller's array after the call: filter and sort act on
   the spread copy *)
ChatExtraction(messages, recentMessages) ==
    [threw |-> FALSE, recommendations |-> ChatItems(recentMessages, 1),
     counts |-> <<>>, recent |-> recentMessages, after |-> messages]

extractChatInsights(messages) ==
    ChatExtraction(messages,
                   Slice(ArraySort(Filter(messages, "role", "assistant"), "recency"),
                         RecentMessages))

-----------------------------------------------------------------------------
(* addSeasonalRecommendations *)

Seasons == {"spring", "summer", "fall", "winter"}

seasonalCrops(season) ==
    CASE season = "spring" -> <<"Corn", "Soybeans", "Rice", "Cotton", "Vegetables">>
      [] season = "summer" -> <<"Sunflower", "Sorghum", "Millet", "Vegetables", "Fruits">>
      [] season = "fall" -> <<"Winter Wheat", "Barley", "Rapeseed", "Root vegetables">>
      [] season = "winter" -> <<"Planning", "Equipment maintenance", "Soil preparation">>

seasonalActivities(season) ==
    CASE season = "spring" -> <<"Planting", "Soil preparation", "Fertilizing", "Pest management planning">>
      [] season = "summer" -> <<"Irrigation management", "Pest control", "Crop monitoring", "Early harvest planning">>
      [] season = "fall" -> <<"Harvesting", "Storage preparation", "Market research", "Winter crop planting">>
      [] season = "winter" -> <<"Equipment maintenance", "Financial planning", "Education", "Crop planning">>

(* currentSeason.charAt(0).toUpperCase() + currentSeason.slice(1) *)
Capitalized(season) ==
    CASE season = "spring" -> "Spring"
      [] season = "summer" -> "Summer"
      [] season = "fall" -> "Fall"
      [] season = "winter" -> "Winter"

SeasonalItem(prefix, type, title, text, season, list) ==
    [id |-> [prefix |-> prefix, of |-> "now", n |-> 0],
     type |-> type, title |-> title,
     description |-> Description(text, season, <<>>, list),
     confidence |-> 70,
     data |-> [ratio |-> NoRatio, related |-> list],
     source |-> "seasonal", createdAt |-> 0]

(* variant: only the crop item is pushed *)
addSeasonalCropOnly(season) ==
    IF season = "none"
    THEN <<>>
    ELSE << SeasonalItem("seasonal-crop", "crop",
                         Capitalized(season) \o " Crop Recommendations",
                         "Consider focusing on these crops this", season,
                         seasonalCrops(season)) >>

addSeasonalRecommendations(season) ==
    IF season = "none"
    THEN <<>>
    ELSE << SeasonalItem("seasonal-crop", "crop",
                         Capitalized(season) \o " Crop Recommendations",
                         "Consider focusing on these crops this", season,
                         seasonalCrops(season)),
            SeasonalItem("seasonal-activity", "business",
                         Capitalized(season) \o " Activity Focus",
                         "Key activities for this", season,
                         seasonalActivities(season)) >>

-----------------------------------------------------------------------------
(* The wall clock.  Every `new Date()` and `Date.now()` reads it; between two
   reads it may have advanced.  An item whose id holds Date.now() reads it
   twice: for the id, then for createdAt. *)

RECURSIVE Reads(_)
Reads(items) ==
    IF items = <<>>
    THEN 0
    ELSE (IF Head(items).id.of = "now" THEN 2 ELSE 1) + Reads(Tail(items))

(* the non-decreasing sequences of n clock values from `from` on *)
RECURSIVE Stamps(_, _)
Stamps(n, from) ==
    IF n = 0
    THEN {<<>>}
    ELSE UNION {{<<t>> \o rest : rest \in Stamps(n - 1, t)} : t \in from..MaxClock}

RECURSIVE Stamped(_, _)
Stamped(items, times) ==
    IF items = <<>>
    THEN <<>>
    ELSE LET item == Head(items)
         IN  IF item.id.of = "now"
             THEN <<[item EXCEPT !.id.n = times[1], !.createdAt = times[2]]>>
                  \o Stamped(Tail(items), Tail(Tail(times)))
             ELSE <<[item EXCEPT !.createdAt = times[1]]>>
                  \o Stamped(Tail(items), Tail(times))

LastRead(times, now) == IF times = <<>> THEN now ELSE times[Len(times)]

(* The payload objects are shared by reference between input.analysisResults
   and the arrays derived from it; `ref` is the identity of the object. *)
WriteBack(list, recent, after) ==
    [i \in 1..Len(list) |->
        IF \E j \in 1..Len(after) : recent[j].ref = list[i].ref
        THEN LET j == CHOOSE j \in 1..Len(after) : recent[j].ref = list[i].ref
             IN  [list[i] EXCEPT !.data = after[j]]
        ELSE list[i]]

-----------------------------------------------------------------------------
(* generateRecommendations, step by step *)

NoSet ==
    [id |-> [prefix |-> "", of |-> "", n |-> 0], userId |-> "",
     recommendations |-> <<>>, summary |-> <<>>, createdAt |-> 0]

UserId == "user-1"

FallbackSummary ==
    "Insufficient data for personalized recommendations. Continue using Arina to analyze your agricultural business for tailored insights."

SeasonClosing(season) ==
    "Consider adjusting your strategy for the " \o season \o " season."

CountType(results, type) == Len(Filter(results, "type", type))

Find(recs, type) ==
    LET hits == Filter(recs, "type", type)
    IN  IF hits = <<>> THEN <<>> ELSE <<hits[1].title \o ". ">>

Opening(business, forecast, optimization) ==
    IF business > 0 \/ forecast > 0 \/ optimization > 0
    THEN "Based on your "
         \o (IF business > 0 THEN "business feasibility analysis, " ELSE "")
         \o (IF forecast > 0 THEN "demand forecasting, " ELSE "")
         \o (IF optimization > 0 THEN "optimization analysis, " ELSE "")
         \o "we recommend: "
    ELSE "Based on your historical data, we recommend: "

SummaryOfTop(topRecs, results, season) ==
    <<Opening(CountType(results, "business_feasibility"),
              CountType(results, "demand_forecast"),
              CountType(results, "optimization"))>>
    \o Find(topRecs, "business") \o Find(topRecs, "market")
    \o Find(topRecs, "resource") \o Find(topRecs, "crop")
    \o (IF season # "none" THEN <<SeasonClosing(season)>> ELSE <<>>)

(* variant: a single top recommendation also gets the fallback text *)
SummaryOffByOne(topRecs, results, season) ==
    IF Len(topRecs) > 1
    THEN SummaryOfTop(topRecs, results, season)
    ELSE <<FallbackSummary>>

Summary(topRecs, results, season) ==
    IF Len(topRecs) > 0
    THEN SummaryOfTop(topRecs, results, season)
    ELSE <<FallbackSummary>>

(* variant: the list is returned whole *)
TruncatedNone(recs) == recs

Truncated(recs) == Slice(recs, MaxRecommendations)

SortResults ==
    /\ pc = "start"
    /\ \E sorted \in {sortByRecency(analysisResults)} :
          /\ sortedResults' = Slice(sorted.ret, RecentOverall)
          /\ analysisResults' = sorted.results
    /\ pc' = "business"
    /\ UNCHANGED <<chatHistory, currentSeason, clock, businessRecs, forecastRecs,
                   optimizationRecs, chatRecs, seasonalRecs, allRecommendations,
                   recommendationSet, sortRet>>

ExtractBusiness ==
    /\ pc = "business"
    /\ \E e \in {extractBusinessRecommendations(sortedResults)} :
       \E times \in Stamps(Reads(e.recommendations), clock) :
          /\ businessRecs' = [e EXCEPT !.recommendations = Stamped(e.recommendations, times)]
          /\ clock' = LastRead(times, clock)
          /\ analysisResults' = WriteBack(analysisResults, e.recent, e.after)
          /\ sortedResults' = WriteBack(sortedResults, e.recent, e.after)
          /\ pc' = IF e.threw THEN "threw" ELSE "forecast"
    /\ UNCHANGED <<chatHistory, currentSeason, forecastRecs, optimizationRecs,
                   chatRecs, seasonalRecs, allRecommendations, recommendationSet,
                   sortRet>>

ExtractForecast ==
    /\ pc = "forecast"
    /\ \E e \in {extractForecastRecommendations(sortedResults)} :
       \E times \in Stamps(Reads(e.recommendations), clock) :
          /\ forecastRecs' = [e EXCEPT !.recommendations = Stamped(e.recommendations, times)]
          /\ clock' = LastRead(times, clock)
          /\ analysisResults' = WriteBack(analysisResults, e.recent, e.after)
          /\ sortedResults' = WriteBack(sortedResults, e.recent, e.after)
          /\ pc' = IF e.threw THEN "threw" ELSE "optimization"
    /\ UNCHANGED <<chatHistory, currentSeason, businessRecs, optimizationRecs,
                   chatRecs, seasonalRecs, allRecommendations, recommendationSet,
                   sortRet>>

ExtractOptimization ==
    /\ pc = "optimization"
    /\ \E e \in {extractOptimizationRecommendations(sortedResults)} :
       \E times \in Stamps(Reads(e.recommendations), clock) :
          /\ optimizationRecs' = [e EXCEPT !.recommendations = Stamped(e.recommendations, times)]
          /\ clock' = LastRead(times, clock)
          /\ analysisResults' = WriteBack(analysisResults, e.recent, e.after)
          /\ sortedResults' = WriteBack(sortedResults, e.recent, e.after)
          /\ pc' = IF e.threw THEN "threw" ELSE "chat"
    /\ UNCHANGED <<chatHistory, currentSeason, businessRecs, forecastRecs,
                   chatRecs, seasonalRecs, allRecommendations, recommendationSet,
                   sortRet>>

ExtractChat ==
    /\ pc = "chat"
    /\ \E e \in {extractChatInsights(chatHistory)} :
       \E times \in Stamps(Reads(e.recommendations), clock) :
          /\ chatRecs' = [e EXCEPT !.recommendations = Stamped(e.recommendations, times)]
          /\ clock' = LastRead(times, clock)
          /\ chatHistory' = e.after
    /\ pc' = "seasonal"
    /\ UNCHANGED <<analysisResults, currentSeason, sortedResults, businessRecs,
                   forecastRecs, optimizationRecs, seasonalRecs, allRecommendations,
                   recommendationSet, sortRet>>

AddSeasonal ==
    /\ pc = "seasonal"
    /\ \E recs \in {addSeasonalRecommendations(currentSeason)} :
       \E times \in Stamps(Reads(recs), clock) :
          /\ seasonalRecs' = Stamped(recs, times)
          /\ clock' = LastRead(times, clock)
    /\ pc' = "combine"
    /\ UNCHANGED <<analysisResults, chatHistory, currentSeason, sortedResults,
                   businessRecs, forecastRecs, optimizationRecs, chatRecs,
                   allRecommendations, recommendationSet, sortRet>>

Combine ==
    /\ pc = "combine"
    /\ allRecommendations' =
          businessRecs.recommendations \o forecastRecs.recommendations
          \o optimizationRecs.recommendations \o chatRecs.recommendations
          \o seasonalRecs
    /\ pc' = "sortRecency"
    /\ UNCHANGED <<analysisResults, chatHistory, currentSeason, clock, sortedResults,
                   businessRecs, forecastRecs, optimizationRecs, chatRecs,
                   seasonalRecs, recommendationSet, sortRet>>

(* variant: the list is not sorted by timestamp *)
SortRecencySkipped ==
    /\ pc = "sortRecency"
    /\ pc' = "sortConfidence"
    /\ UNCHANGED <<analysisResults, chatHistory, currentSeason, clock, sortedResults,
                   businessRecs, forecastRecs, optimizationRecs, chatRecs,
                   seasonalRecs, allRecommendations, recommendationSet, sortRet>>

SortRecency ==
    /\ pc = "sortRecency"
    /\ allRecommendations' = ArraySort(allRecommendations, "createdAt")
    /\ pc' = "sortConfidence"
    /\ UNCHANGED <<analysisResults, chatHistory, currentSeason, clock, sortedResults,
                   businessRecs, forecastRecs, optimizationRecs, chatRecs,
                   seasonalRecs, recommendationSet, sortRet>>

SortConfidence ==
    /\ pc = "sortConfidence"
    /\ allRecommendations' = ArraySort(allRecommendations, "confidence")
    /\ pc' = "finalize"
    /\ UNCHANGED <<analysisResults, chatHistory, currentSeason, clock, sortedResults,
                   businessRecs, forecastRecs, optimizationRecs, chatRecs,
                   seasonalRecs, recommendationSet, sortRet>>

(* variant: the summary is made from the whole returned list *)
FinalizeSummaryOfAll ==
    /\ pc = "finalize"
    /\ \E finalRecommendations \in {Truncated(allRecommendations)} :
       \E times \in Stamps(2, clock) :
          /\ allRecommendations' = finalRecommendations
          /\ recommendationSet' =
                [id |-> [prefix |-> "rec-set", of |-> "now", n |-> times[1]],
                 userId |-> UserId,
                 recommendations |-> finalRecommendations,
                 summary |-> Summary(finalRecommendations,
                                     analysisResults, currentSeason),
                 createdAt |-> times[2]]
          /\ clock' = times[2]
    /\ pc' = "done"
    /\ UNCHANGED <<analysisResults, chatHistory, currentSeason, sortedResults,
                   businessRecs, forecastRecs, optimizationRecs, chatRecs,
                   seasonalRecs, sortRet>>

Finalize ==
    /\ pc = "finalize"
    /\ \E finalRecommendations \in {Truncated(allRecommendations)} :
       \E times \in Stamps(2, clock) :
          /\ allRecommendations' = finalRecommendations
          /\ recommendationSet' =
                [id |-> [prefix |-> "rec-set", of |-> "now", n |-> times[1]],
                 userId |-> UserId,
                 recommendations |-> finalRecommendations,
                 summary |-> Summary(Slice(finalRecommendations, TopRecs),
                                     analysisResults, currentSeason),
                 createdAt |-> times[2]]
          /\ clock' = times[2]
    /\ pc' = "done"
    /\ UNCHANGED <<analysisResults, chatHistory, currentSeason, sortedResults,
                   businessRecs, forecastRecs, optimizationRecs, chatRecs,
                   seasonalRecs, sortRet>>

(* a direct call of sortByRecency *)
CallSortByRecency ==
    /\ pc = "sort.call"
    /\ \E sorted \in {sortByRecency(analysisResults)} :
          /\ sortRet' = sorted.ret
          /\ analysisResults' = sorted.results
    /\ pc' = "sort.done"
    /\ UNCHANGED <<chatHistory, currentSeason, clock, sortedResults, businessRecs,
                   forecastRecs, optimizationRecs, chatRecs, seasonalRecs,
                   allRecommendations, recommendationSet>>

-----------------------------------------------------------------------------
(* Inputs *)

NoDate == [k |-> "null", ms |-> 0]
DateAt(ms) == [k |-> "date", ms |-> ms]
InvalidDate == [k |-> "invalid", ms |-> 0]

Analysis(ref, id, type, data, created_at) ==
    [ref |-> ref, id |-> id, type |-> type, data |-> data, created_at |-> created_at]

Message(ref, role, content, created_at) ==
    [ref |-> ref, id |-> ref, role |-> role, content |-> content, created_at |-> created_at]

Business(d) == [d EXCEPT !.businessName = "FarmCo"]
Forecast(d) == [d EXCEPT !.productName = "Rice"]
Optimization(d) == [d EXCEPT !.name = "Plan"]

Costs(a, b) == Arr(<<Entry("Seed", Num(a)), Entry("Labor", Num(b))>>)
Points(a, b) == Arr(<<Entry("", Num(a)), Entry("", Num(b))>>)

BusinessFull ==
    Business([EmptyData EXCEPT !.profitMargin = Num(300), !.roi = Num(200),
                               !.operationalCosts = Costs(400, 600),
                               !.breakEvenUnits = Num(40000),
                               !.monthlySalesVolume = Num(100000)])

BusinessStd == Business([EmptyData EXCEPT !.profitMargin = Num(300), !.roi = Num(200)])

BusinessPayloads ==
    { BusinessFull, BusinessStd, NullData,
      Business([EmptyData EXCEPT !.profitMargin = Num(250), !.roi = Num(150),
                                 !.operationalCosts =
                                     Arr(<<Entry("a", Num(100)), Entry("b", Num(300)),
                                           Entry("c", Num(300)), Entry("d", Num(300))>>),
                                 !.breakEvenUnits = Num(50000),
                                 !.monthlySalesVolume = Num(100000)]),
      Business([EmptyData EXCEPT !.profitMargin = NumStr(500), !.roi = TextStr]),
      Business([EmptyData EXCEPT !.profitMargin = JsNull, !.roi = JsBool(TRUE)]),
      Business([EmptyData EXCEPT !.operationalCosts = Arr(<<NullEntry>>)]),
      Business([EmptyData EXCEPT !.roi = Num(200),
                                 !.operationalCosts =
                                     Arr(<<Entry("a", Num(100)), NullEntry>>)]),
      Business([EmptyData EXCEPT !.operationalCosts = Arr(<<PrimitiveEntry>>)]),
      Business([EmptyData EXCEPT !.operationalCosts = NotArray]),
      Business([EmptyData EXCEPT !.operationalCosts = Arr(<<>>)]),
      Business([EmptyData EXCEPT !.operationalCosts = Costs(-5000, 5000)]),
      Business([EmptyData EXCEPT !.operationalCosts = Costs(0, 0)]),
      Business([EmptyData EXCEPT !.breakEvenUnits = Num(40000),
                                 !.monthlySalesVolume = Num(0)]),
      Business([EmptyData EXCEPT !.breakEvenUnits = TextStr,
                                 !.monthlySalesVolume = Num(100000)]) }

Historical ==
    Arr(<<Entry("", Num(100000)), Entry("", Num(300000)), Entry("", Num(100000)),
          Entry("", Num(300000)), Entry("", Num(100000))>>)

ForecastStd == Forecast([EmptyData EXCEPT !.forecasted = Points(100000, 130000),
                                          !.mape = Num(5000)])

ForecastPayloads ==
    { ForecastStd, NullData,
      Forecast([EmptyData EXCEPT !.forecasted = Points(100000, 130000),
                                 !.historical = Historical, !.mape = Num(5000)]),
      Forecast([EmptyData EXCEPT !.forecasted = Points(100000, 80000),
                                 !.mape = Num(25000)]),
      Forecast([EmptyData EXCEPT !.forecasted = Points(100000, 105000),
                                 !.mape = Num(15000)]),
      Forecast([EmptyData EXCEPT !.forecasted = Points(0, 5000)]),
      Forecast([EmptyData EXCEPT !.forecasted = Points(0, 0)]),
      Forecast([EmptyData EXCEPT !.forecasted = Arr(<<NullEntry, Entry("", Num(5000))>>),
                                 !.mape = Num(5000)]),
      Forecast([EmptyData EXCEPT !.forecasted = Arr(<<PrimitiveEntry, PrimitiveEntry>>)]),
      Forecast([EmptyData EXCEPT !.forecasted = Arr(<<Entry("", Num(100000))>>)]),
      Forecast([EmptyData EXCEPT !.forecasted = NotArray, !.historical = NotArray]),
      Forecast([EmptyData EXCEPT !.forecasted = Points(100000, 130000),
                                 !.historical = Arr(<<Entry("", Num(1000)), NullEntry>>)]),
      Forecast([EmptyData EXCEPT !.historical = Arr(<<>>)]),
      Forecast([EmptyData EXCEPT !.mape = Num(0)]),
      Forecast([EmptyData EXCEPT !.mape = Num(10000)]),
      Forecast([EmptyData EXCEPT !.mape = Num(20000)]),
      Forecast([EmptyData EXCEPT !.mape = NumStr(5000)]),
      Forecast([EmptyData EXCEPT !.mape = TextStr]) }

Variables ==
    Arr(<<Entry("land", Num(1000)), Entry("water", Num(5000)), Entry("idle", Num(0)),
          Entry("labor", Num(3000)), Entry("seed", Num(2000))>>)

Constraints == Arr(<<Entry("budget", Num(0)), Entry("area", Num(500))>>)

OptimizationStd == Optimization([EmptyData EXCEPT !.feasible = JsBool(TRUE)])

OptimizationPayloads ==
    { OptimizationStd, NullData,
      Optimization([EmptyData EXCEPT !.feasible = JsBool(TRUE),
                                     !.objectiveValue = Num(12345),
                                     !.variables = Variables,
                                     !.constraints = Constraints]),
      Optimization([EmptyData EXCEPT !.feasible = JsBool(FALSE)]),
      Optimization([EmptyData EXCEPT !.feasible = JsBool(FALSE),
                                     !.objectiveValue = TextStr,
                                     !.variables = Variables,
                                     !.constraints = Constraints]),
      Optimization([EmptyData EXCEPT !.feasible = JsBool(FALSE),
                                     !.variables = Arr(<<NullEntry>>),
                                     !.constraints = Arr(<<NullEntry>>)]),
      Optimization([EmptyData EXCEPT !.variables = Variables,
                                     !.constraints = Constraints]),
      Optimization([EmptyData EXCEPT !.feasible = JsNull, !.variables = Variables]),
      Optimization([EmptyData EXCEPT !.feasible = TextStr, !.constraints = Constraints]),
      Optimization([EmptyData EXCEPT !.feasible = JsBool(TRUE),
                                     !.objectiveValue = NumStr(5000)]),
      Optimization([EmptyData EXCEPT !.feasible = JsBool(TRUE),
                                     !.variables = Arr(<<NullEntry>>)]),
      Optimization([EmptyData EXCEPT !.feasible = JsBool(TRUE),
                                     !.variables = Arr(<<Entry("x", NumStr(5000))>>)]),
      Optimization([EmptyData EXCEPT !.feasible = JsBool(TRUE),
                                     !.variables = Arr(<<PrimitiveEntry>>),
                                     !.constraints = Arr(<<Entry("c", Num(0)), NullEntry>>)]),
      Optimization([EmptyData EXCEPT !.feasible = JsBool(TRUE),
                                     !.variables = NotArray,
                                     !.constraints = NotArray]) }

Piece(text, kws) == [text |-> text, kws |-> kws]

ChatCases ==
    { <<>>,
      << Message(1, "assistant",
                 <<Piece("You could expand into new areas", {"expand"})>>, DateAt(1)) >>,
      << Message(1, "user",
                 <<Piece("How do I increase profit", {"increase", "profit"})>>, DateAt(1)) >>,
      << Message(1, "assistant",
                 <<Piece("Hello", {}),
                   Piece("Profit rises when cost falls", {"profit", "cost"})>>, DateAt(1)),
         Message(2, "user", <<Piece("What about risk", {"risk"})>>, DateAt(2)),
         Message(3, "assistant",
                 <<Piece("Revenue and profit depend on demand", {"revenue", "profit", "demand"}),
                   Piece("Mind the weather risk", {"weather", "risk"})>>, DateAt(2)) >> }

StdData(type) ==
    CASE type = "business_feasibility" -> BusinessStd
      [] type = "demand_forecast" -> ForecastStd
      [] type = "optimization" -> OptimizationStd
      [] OTHER -> EmptyData

AnalysisTypes == {"business_feasibility", "demand_forecast", "optimization"}

Input(results, chat, season) ==
    [analysisResults |-> results, chatHistory |-> chat, currentSeason |-> season]

(* one analysis, every payload *)
SingleInputs ==
    {Input(<<Analysis(1, 1, "business_feasibility", d, DateAt(1))>>, <<>>, "none") :
        d \in BusinessPayloads}
    \cup {Input(<<Analysis(1, 1, "demand_forecast", d, DateAt(1))>>, <<>>, "none") :
        d \in ForecastPayloads}
    \cup {Input(<<Analysis(1, 1, "optimization", d, DateAt(1))>>, <<>>, "none") :
        d \in OptimizationPayloads}
    \cup {Input(<<Analysis(1, 1, "soil_report", BusinessFull, DateAt(1))>>, <<>>, "none")}

(* up to two analyses of any type and date *)
PairInputs ==
    LET Dates == {NoDate, DateAt(1), DateAt(2)}
        One(i) == {Analysis(i, i, t, StdData(t), d) : t \in AnalysisTypes, d \in Dates}
    IN  {Input(<<a>>, <<>>, "none") : a \in One(1)}
        \cup {Input(<<a, b>>, <<>>, "none") : a \in One(1), b \in One(2)}

(* no analysis: every chat history and season *)
SeasonInputs ==
    {Input(<<>>, c, s) : c \in ChatCases, s \in Seasons \cup {"none"}}

(* many items: more than the set keeps *)
BulkInputs ==
    { Input([i \in 1..3 |-> Analysis(i, i, "business_feasibility", BusinessFull, DateAt(i))],
            <<>>, "none"),
      Input([i \in 1..4 |-> Analysis(i, i, "business_feasibility", BusinessFull,
                                     IF i = 1 THEN DateAt(3) ELSE DateAt(1))],
            <<>>, "winter"),
      Input(<<Analysis(1, 1, "business_feasibility", BusinessFull, DateAt(1)),
              Analysis(2, 2, "demand_forecast",
                       Forecast([EmptyData EXCEPT !.forecasted = Points(100000, 130000),
                                                  !.historical = Historical,
                                                  !.mape = Num(25000)]), DateAt(2)),
              Analysis(3, 3, "optimization",
                       Optimization([EmptyData EXCEPT !.feasible = JsBool(TRUE),
                                                      !.variables = Variables,
                                                      !.constraints = Constraints]),
                       NoDate)>>,
            CHOOSE c \in ChatCases : Len(c) = 3, "summer"),
      Input([i \in 1..2 |->
                Analysis(i, i, "business_feasibility",
                         Business([EmptyData EXCEPT !.profitMargin = Num(300)]), DateAt(i))],
            CHOOSE c \in ChatCases : Len(c) = 3, "none") }

(* the same analysis id twice *)
SameIdInputs ==
    { Input(<<Analysis(1, 1, "business_feasibility", BusinessStd, DateAt(1)),
              Analysis(2, 1, "business_feasibility", BusinessStd, DateAt(2))>>,
            <<>>, "none"),
      Input(<<Analysis(1, 1, "optimization", OptimizationStd, DateAt(1)),
              Analysis(2, 1, "optimization", OptimizationStd, DateAt(1))>>,
            <<>>, "none") }

(* more analyses than the engine keeps, overall and of one type *)
CapInputs ==
    { Input([i \in 1..11 |->
                Analysis(i, i,
                         IF i <= 3 THEN "optimization"
                         ELSE IF i <= 7 THEN "business_feasibility" ELSE "demand_forecast",
                         StdData(IF i <= 3 THEN "optimization"
                                 ELSE IF i <= 7 THEN "business_feasibility"
                                 ELSE "demand_forecast"),
                         DateAt(i))],
            <<>>, "none"),
      Input([i \in 1..4 |->
                Analysis(i, i, "business_feasibility",
                         Business([EmptyData EXCEPT !.profitMargin = Num(300)]),
                         IF i = 2 THEN InvalidDate ELSE DateAt(i))],
            <<>>, "none") }

(* more assistant messages than the chat extractor keeps, and a message
   whose timestamp does not parse *)
ChatCapInputs ==
    { Input(<<>>,
            [i \in 1..12 |->
                IF i = 1
                THEN Message(i, "assistant", <<Piece("Mind the risk", {"risk"})>>, DateAt(i))
                ELSE IF i = 12
                THEN Message(i, "user", <<Piece("Is the market down", {"market"})>>, DateAt(i))
                ELSE Message(i, "assistant",
                             <<Piece("Save water", {"save", "water"})>>, DateAt(i))],
            "none"),
      Input(<<>>,
            << Message(1, "assistant", <<Piece("Profit was low", {"profit"})>>, DateAt(1)),
               Message(2, "assistant", <<Piece("Hello", {})>>, InvalidDate),
               Message(3, "assistant", <<Piece("Profit is high", {"profit"})>>, DateAt(2)) >>,
            "none") }

Inputs ==
    SingleInputs \cup PairInputs \cup SeasonInputs \cup BulkInputs \cup SameIdInputs
    \cup CapInputs \cup ChatCapInputs

InitWith(input, at) ==
    /\ analysisResults = input.analysisResults
    /\ chatHistory = input.chatHistory
    /\ currentSeason = input.currentSeason
    /\ pc = at
    /\ clock = 0
    /\ sortedResults = <<>>
    /\ businessRecs = NotRun
    /\ forecastRecs = NotRun
    /\ optimizationRecs = NotRun
    /\ chatRecs = NotRun
    /\ seasonalRecs = <<>>
    /\ allRecommendations = <<>>
    /\ recommendationSet = NoSet
    /\ sortRet = <<>>

Init == \E input \in Inputs : InitWith(input, "start")

Next ==
    \/ SortResults
    \/ ExtractBusiness
    \/ ExtractForecast
    \/ ExtractOptimization
    \/ ExtractChat
    \/ AddSeasonal
    \/ Combine
    \/ SortRecency
    \/ SortConfidence
    \/ Finalize

Spec == Init /\ [][Next]_vars

(* sortByRecency on its own: every list of up to MaxSortLen records whose
   created_at is missing, unparseable or a date *)
SortDates == {NoDate, InvalidDate, DateAt(0), DateAt(1), DateAt(2)}

RECURSIVE SortLists(_)
SortLists(n) ==
    IF n = 0
    THEN {<<>>}
    ELSE SortLists(n - 1)
         \cup {Append(l, Analysis(n, n, "optimization", EmptyData, d)) :
                 l \in {x \in SortLists(n - 1) : Len(x) = n - 1}, d \in SortDates}

InitSort == \E l \in SortLists(MaxSortLen) : InitWith(Input(l, <<>>, "none"), "sort.call")

NextSort == CallSortByRecency

SpecSort == InitSort /\ [][NextSort]_vars

-----------------------------------------------------------------------------
(* Properties *)

Returned == pc = "done"

Recs == recommendationSet.recommendations

Produced ==
    Len(businessRecs.recommendations) + Len(forecastRecs.recommendations)
    + Len(optimizationRecs.recommendations) + Len(chatRecs.recommendations)
    + Len(seasonalRecs)

NoInput == analysisResults = <<>> /\ chatHistory = <<>>

(* C1: the returned set holds at most 10 recommendations *)
C1_AtMostTen == Returned => Len(Recs) <= 10

C1_Witness == Returned /\ Produced > 10 /\ Len(Recs) = 10

(* The run in which the clock never advances: every read gives the same
   instant, so every item keeps the place concatenation gave it until the
   confidence sort. *)
FrozenClock(items) == Stamped(items, [i \in 1..Reads(items) |-> 0])

FrozenRun ==
    Truncated(
        ArraySort(
            ArraySort(
                FrozenClock(
                    extractBusinessRecommendations(sortedResults).recommendations
                    \o extractForecastRecommendations(sortedResults).recommendations
                    \o extractOptimizationRecommendations(sortedResults).recommendations
                    \o extractChatInsights(chatHistory).recommendations
                    \o addSeasonalRecommendations(currentSeason)),
                "createdAt"),
            "confidence"))

Visible(items) ==
    [i \in 1..Len(items) |->
        [type |-> items[i].type, title |-> items[i].title,
         description |-> items[i].description, confidence |-> items[i].confidence]]

(* C2: two runs on the same input return lists equal in length and, place by
   place, in type, title, description and confidence, whatever the clock
   shows.  The run with a frozen clock is one of the runs, so every run has
   to agree with it. *)
C2_Determinism == Returned => Visible(Recs) = Visible(FrozenRun)

DistinctIds(items) ==
    \A i, j \in 1..Len(items) : i # j => items[i].id # items[j].id

(* C3 as stated: the ids of the returned items are pairwise distinct, for
   every input *)
C3_IdsDistinct == Returned => DistinctIds(Recs)

(* C3 amended: the ids of the returned items are pairwise distinct whenever
   the ids of the analysis results given are *)
C3_IdsDistinctForDistinctAnalyses ==
    (Returned /\ DistinctIds(analysisResults)) => DistinctIds(Recs)

C3_Witness ==
    /\ Returned
    /\ DistinctIds(analysisResults)
    /\ \E i, j \in 1..Len(Recs) :
          /\ i # j
          /\ Recs[i].id.prefix = Recs[j].id.prefix
    /\ \E i, j \in 1..Len(Recs) :
          /\ i # j
          /\ Recs[i].source = "chat" /\ Recs[j].source = "chat"
          /\ Recs[i].id.n = Recs[j].id.n

(* C4: no input makes generateRecommendations raise an error, however its
   payloads are shaped *)
C4_NoError == pc # "threw"

(* C5: no step changes input.analysisResults (the order of the list, and
   inside every payload the order of its lists) or input.chatHistory *)
C5_InputsUnchanged ==
    [][analysisResults' = analysisResults /\ chatHistory' = chatHistory]_vars

C5_Witness ==
    /\ Returned
    /\ Len(sortedResults) = Len(analysisResults)
    /\ sortedResults # analysisResults
    /\ chatRecs.recent # chatHistory
    /\ \E i \in 1..Len(analysisResults) :
          /\ analysisResults[i].data.operationalCosts.k = "array"
          /\ analysisResults[i].data.operationalCosts.items
                # ArraySort(analysisResults[i].data.operationalCosts.items, "amount")
    /\ \E i \in 1..Len(Recs) : Recs[i].id.prefix = "biz-cost"

(* C6: the returned summary is the fallback text exactly when the returned
   list is empty, and the input with no analysis, no chat and no season
   returns, with the empty list *)
C6_FallbackIffEmpty ==
    /\ Returned =>
          ((Recs = <<>>) <=>
             (recommendationSet.summary =
                <<"Insufficient data for personalized recommendations. Continue using Arina to analyze your agricultural business for tailored insights.">>))
    /\ (NoInput /\ currentSeason = "none") =>
          /\ pc # "threw"
          /\ Returned => Recs = <<>>

C6_Witness ==
    /\ Returned
    /\ NoInput
    /\ currentSeason = "none"
    /\ Recs = <<>>
    /\ recommendationSet.summary = <<FallbackSummary>>

(* the confidence, in hundredths, of the rule that an id prefix names *)
RuleConfidence(prefix) ==
    CASE prefix = "biz-profit" -> 80
      [] prefix = "biz-roi" -> 75
      [] prefix = "biz-cost" -> 70
      [] prefix = "biz-breakeven" -> 85
      [] prefix \in {"forecast-growth", "forecast-decline"} -> 75
      [] prefix = "forecast-seasonal" -> 70
      [] prefix = "forecast-accuracy" -> 80
      [] prefix = "forecast-inaccuracy" -> 70
      [] prefix = "opt-feasible" -> 90
      [] prefix = "opt-resources" -> 80
      [] prefix = "opt-constraints" -> 85
      [] prefix = "opt-infeasible" -> 90
      [] prefix \in {"seasonal-crop", "seasonal-activity"} -> 70
      [] OTHER -> 60

FixedConfidence(items) ==
    \A i \in 1..Len(items) :
        /\ items[i].confidence = RuleConfidence(items[i].id.prefix)
        /\ items[i].confidence >= 0
        /\ items[i].confidence <= 100
        /\ items[i].source = "chat" <=> items[i].confidence = 60

(* C7: every item an extractor emits, and every returned item, carries the
   fixed confidence of its rule, within [0, 1] *)
C7_FixedConfidence ==
    /\ FixedConfidence(businessRecs.recommendations)
    /\ FixedConfidence(forecastRecs.recommendations)
    /\ FixedConfidence(optimizationRecs.recommendations)
    /\ FixedConfidence(chatRecs.recommendations)
    /\ FixedConfidence(seasonalRecs)
    /\ FixedConfidence(allRecommendations)
    /\ FixedConfidence(Recs)

C7_Witness ==
    /\ pc = "finalize"
    /\ \A source \in {"analysis", "pattern", "chat", "seasonal"} :
          \E i \in 1..Len(allRecommendations) : allRecommendations[i].source = source
    /\ \E i \in 1..Len(allRecommendations) : allRecommendations[i].id.prefix = "biz-profit"
    /\ \E i \in 1..Len(allRecommendations) : allRecommendations[i].id.prefix = "opt-feasible"

(* what the i-th processed analysis pushed *)
RECURSIVE Before(_, _)
Before(counts, i) == IF i = 1 THEN 0 ELSE counts[i - 1] + Before(counts, i - 1)

Segment(e, i) ==
    SubSeq(e.recommendations, Before(e.counts, i) + 1, Before(e.counts, i) + e.counts[i])

Titles(items) == [i \in 1..Len(items) |-> items[i].title]

(* C8: for every optimization analysis the extractor processed: feasible =
   false gives exactly the one item "Resource Constraints Too Tight",
   whatever variables and constraints hold; feasible neither true nor false
   gives no item *)
C8_InfeasibleOrAbsent ==
    \A i \in 1..Len(optimizationRecs.counts) :
        /\ (/\ optimizationRecs.recent[i].data.k = "object"
            /\ optimizationRecs.recent[i].data.feasible = JsBool(FALSE))
           => Titles(Segment(optimizationRecs, i)) = <<"Resource Constraints Too Tight">>
        /\ optimizationRecs.recent[i].data.feasible \notin {JsBool(TRUE), JsBool(FALSE)}
           => Segment(optimizationRecs, i) = <<>>

C8_Witness ==
    /\ \E i \in 1..Len(optimizationRecs.counts) :
          /\ optimizationRecs.recent[i].data.feasible = JsBool(FALSE)
          /\ optimizationRecs.recent[i].data.variables.k = "array"
          /\ optimizationRecs.recent[i].data.constraints.k = "array"
          /\ Len(Segment(optimizationRecs, i)) = 1
    /\ pc = "chat"

(* C9: with no analysis and no chat, each season tag returns exactly two
   items, both seasonal with confidence 0.70, one crop and one business, and
   a summary ending in the season's closing sentence; without a season tag
   the seasonal recommender adds nothing *)
C9_Seasonal ==
    /\ (NoInput /\ currentSeason \in {"spring", "summer", "fall", "winter"}) =>
          /\ pc # "threw"
          /\ Returned =>
                /\ Len(Recs) = 2
                /\ \A i \in 1..2 : Recs[i].source = "seasonal" /\ Recs[i].confidence = 70
                /\ {Recs[1].type, Recs[2].type} = {"crop", "business"}
                /\ recommendationSet.summary[Len(recommendationSet.summary)] =
                      (CASE currentSeason = "spring" ->
                               "Consider adjusting your strategy for the spring season."
                         [] currentSeason = "summer" ->
                               "Consider adjusting your strategy for the summer season."
                         [] currentSeason = "fall" ->
                               "Consider adjusting your strategy for the fall season."
                         [] currentSeason = "winter" ->
                               "Consider adjusting your strategy for the winter season.")
    /\ currentSeason = "none" =>
          /\ seasonalRecs = <<>>
          /\ \A i \in 1..Len(allRecommendations) : allRecommendations[i].source # "seasonal"
          /\ \A i \in 1..Len(Recs) : Recs[i].source # "seasonal"

C9_Witness ==
    /\ Returned
    /\ NoInput
    /\ currentSeason = "winter"
    /\ Len(Recs) = 2
    /\ Recs[1].id.prefix = "seasonal-activity"

(* the timestamp of a record, the epoch when missing or unparseable *)
EpochTime(r) == IF r.created_at.k = "date" THEN r.created_at.ms ELSE 0

IsPermutation(a, b) ==
    /\ Len(a) = Len(b)
    /\ \E f \in [1..Len(a) -> 1..Len(a)] :
          /\ \A i, j \in 1..Len(a) : i # j => f[i] # f[j]
          /\ \A i \in 1..Len(a) : a[i] = b[f[i]]

(* C10: sortByRecency returns a permutation of its argument, non-increasing
   by timestamp, a missing or unparseable timestamp counting as the epoch *)
C10_SortedByRecency ==
    pc = "sort.done" =>
        /\ IsPermutation(sortRet, analysisResults)
        /\ \A i, j \in 1..Len(sortRet) :
              i < j => EpochTime(sortRet[i]) >= EpochTime(sortRet[j])

Combined ==
    businessRecs.recommendations \o forecastRecs.recommendations
    \o optimizationRecs.recommendations \o chatRecs.recommendations \o seasonalRecs

(* C11: after the two sorts, before and after truncation, two items created
   on the same calendar day stand in non-increasing confidence order, and of
   two items created on different days the later-created stands first *)
C11_DayThenConfidence ==
    pc \in {"finalize", "done"} =>
        \A i, j \in 1..Len(allRecommendations) :
            i < j =>
                IF DayOf(allRecommendations[i].createdAt) = DayOf(allRecommendations[j].createdAt)
                THEN allRecommendations[i].confidence >= allRecommendations[j].confidence
                ELSE allRecommendations[i].createdAt > allRecommendations[j].createdAt

C11_Witness ==
    /\ pc = "finalize"
    /\ allRecommendations # Combined
    /\ \E i, j \in 1..Len(Combined) :
          /\ i < j
          /\ DayOf(Combined[i].createdAt) = DayOf(Combined[j].createdAt)
          /\ Combined[i].confidence < Combined[j].confidence
    /\ \E i, j \in 1..Len(Combined) :
          /\ i < j
          /\ DayOf(Combined[i].createdAt) < DayOf(Combined[j].createdAt)
          /\ Combined[i].confidence > Combined[j].confidence

Refs(list) == {list[i].ref : i \in 1..Len(list)}

(* kept holds the n most recent records of list, or all of them if fewer *)
MostRecent(kept, list, n) ==
    /\ Len(kept) = (IF Len(list) < n THEN Len(list) ELSE n)
    /\ Cardinality(Refs(kept)) = Len(kept)
    /\ Refs(kept) \subseteq Refs(list)
    /\ \A i \in 1..Len(kept) : \A j \in 1..Len(list) :
          list[j].ref \notin Refs(kept) => EpochTime(kept[i]) >= EpochTime(list[j])

Extracted == pc \in {"chat", "seasonal", "combine", "sortRecency", "sortConfidence",
                     "finalize", "done"}

DerivedFrom(item, e) == \E k \in 1..Len(e.recent) : e.recent[k].id = item.id.n

(* C12: the extractors are given the 10 most recent analyses overall, each of
   the three uses the 3 most recent of its type among them, and every returned
   item made from an analysis is made from one of those *)
C12_TwoLevelCap ==
    /\ pc # "start" => MostRecent(sortedResults, analysisResults, 10)
    /\ Extracted =>
          /\ MostRecent(businessRecs.recent,
                        Filter(sortedResults, "type", "business_feasibility"), 3)
          /\ MostRecent(forecastRecs.recent,
                        Filter(sortedResults, "type", "demand_forecast"), 3)
          /\ MostRecent(optimizationRecs.recent,
                        Filter(sortedResults, "type", "optimization"), 3)
    /\ Returned =>
          \A i \in 1..Len(Recs) :
              Recs[i].id.of = "analysis" =>
                  \/ DerivedFrom(Recs[i], businessRecs)
                  \/ DerivedFrom(Recs[i], forecastRecs)
                  \/ DerivedFrom(Recs[i], optimizationRecs)

KeywordsOf(category) ==
    {keywordMap[k][1] : k \in {n \in 1..Len(keywordMap) : keywordMap[n][2] = category}}

Mentions(message, category) ==
    \E p \in 1..Len(message.content) : message.content[p].kws \cap KeywordsOf(category) # {}

ChatItemsOf(category) ==
    {i \in 1..Len(chatRecs.recommendations) :
        chatRecs.recommendations[i].id.prefix = "chat-" \o category}

ChatDone == pc \in {"seasonal", "combine", "sortRecency", "sortConfidence",
                    "finalize", "done"}

(* C13: the chat extractor considers the 10 most recent assistant messages
   and no other; a category has exactly one item if one of its keywords occurs
   in them and none otherwise; the item's description is a sentence with a
   keyword of the category taken from the most recent considered message that
   has one *)
C13_ChatInsights ==
    ChatDone =>
        /\ \A m \in 1..Len(chatRecs.recent) : chatRecs.recent[m].role = "assistant"
        /\ MostRecent(chatRecs.recent, Filter(chatHistory, "role", "assistant"), 10)
        /\ Len(chatRecs.recommendations) <= 7
        /\ \A i \in 1..Len(chatRecs.recommendations) :
              \E c \in 1..Len(categories) : i \in ChatItemsOf(categories[c])
        /\ \A c \in 1..Len(categories) :
              IF \E m \in 1..Len(chatRecs.recent) : Mentions(chatRecs.recent[m], categories[c])
              THEN /\ Cardinality(ChatItemsOf(categories[c])) = 1
                   /\ \A i \in ChatItemsOf(categories[c]) :
                         \E m \in 1..Len(chatRecs.recent) :
                            /\ Mentions(chatRecs.recent[m], categories[c])
                            /\ \A n \in 1..Len(chatRecs.recent) :
                                  Mentions(chatRecs.recent[n], categories[c])
                                  => EpochTime(chatRecs.recent[m]) >= EpochTime(chatRecs.recent[n])
                            /\ \E p \in 1..Len(chatRecs.recent[m].content) :
                                  /\ chatRecs.recent[m].content[p].kws
                                        \cap KeywordsOf(categories[c]) # {}
                                  /\ chatRecs.recommendations[i].description.text
                                        = chatRecs.recent[m].content[p].text
              ELSE ChatItemsOf(categories[c]) = {}

Shown == IF Len(Recs) < 5 THEN Len(Recs) ELSE 5

FirstTitle(type) ==
    IF \E i \in 1..Shown : Recs[i].type = type
    THEN <<Recs[CHOOSE i \in 1..Shown :
                   /\ Recs[i].type = type
                   /\ \A j \in 1..(i - 1) : Recs[j].type # type].title \o ". ">>
    ELSE <<>>

(* the summary without its opening clause and its season sentence *)
Listed ==
    SubSeq(recommendationSet.summary, 2,
           Len(recommendationSet.summary) - (IF currentSeason = "none" THEN 0 ELSE 1))

(* C14: for a non-empty result the summary lists, after the opening clause,
   the title of the first business, market, resource and crop item among the
   first 5 returned items, in that order, a type without an item among those 5
   being left out; nothing is taken from position 6 or later *)
C14_SummaryTitles ==
    (Returned /\ Recs # <<>>) =>
        Listed = FirstTitle("business") \o FirstTitle("market")
                 \o FirstTitle("resource") \o FirstTitle("crop")

C14_Witness ==
    /\ Returned
    /\ Len(Recs) > 5
    /\ Len(Listed) >= 2
    /\ \E i \in 6..Len(Recs) : \A j \in 1..5 : Recs[j].type # Recs[i].type
    /\ \E i, j \in 1..5 :
          i < j /\ Recs[i].type = Recs[j].type /\ Recs[i].title # Recs[j].title

FiniteNumbers(item) ==
    /\ \A n \in 1..Len(item.description.nums) : item.description.nums[n].t = "number"
    /\ item.data.ratio # NoRatio => item.data.ratio.t = "number"

ZeroDivisor(entries) ==
    /\ entries.k = "array"
    /\ Len(entries.items) > 1
    /\ \A n \in 1..Len(entries.items) : entries.items[n].k = "object"
    /\ entries.items[1].v = Num(0)

HasRule(items, prefixes) == \E n \in 1..Len(items) : items[n].id.prefix \in prefixes

(* C15: a ratio rule whose divisor is zero emits no item (first forecast 0 for
   the growth rate, monthly sales volume 0 for the break-even ratio), and no
   emitted item carries an infinite or undefined number in its description or
   data *)
C15_DivideByZero ==
    /\ \A i \in 1..Len(businessRecs.recommendations) :
          FiniteNumbers(businessRecs.recommendations[i])
    /\ \A i \in 1..Len(forecastRecs.recommendations) :
          FiniteNumbers(forecastRecs.recommendations[i])
    /\ \A i \in 1..Len(forecastRecs.counts) :
          (/\ forecastRecs.recent[i].data.k = "object"
           /\ ZeroDivisor(forecastRecs.recent[i].data.forecasted))
          => ~HasRule(Segment(forecastRecs, i), {"forecast-growth", "forecast-decline"})
    /\ \A i \in 1..Len(businessRecs.counts) :
          (/\ businessRecs.recent[i].data.k = "object"
           /\ businessRecs.recent[i].data.monthlySalesVolume = Num(0))
          => ~HasRule(Segment(businessRecs, i), {"biz-breakeven"})

CountTitle(items, title) == Cardinality({n \in 1..Len(items) : items[n].title = title})

(* C16: for every processed forecast analysis whose mape is a number: below
   10, zero included, exactly one "High Forecast Reliability" item and no
   alert; above 20 exactly one "Forecast Uncertainty Alert" and no reliability
   item; from 10 to 20 neither *)
C16_MapeBands ==
    ~forecastRecs.threw =>
        \A i \in 1..Len(forecastRecs.counts) :
            (/\ forecastRecs.recent[i].data.k = "object"
             /\ forecastRecs.recent[i].data.mape.t = "number")
            => /\ CountTitle(Segment(forecastRecs, i), "High Forecast Reliability")
                    = (IF forecastRecs.recent[i].data.mape.v < 10000 THEN 1 ELSE 0)
               /\ CountTitle(Segment(forecastRecs, i), "Forecast Uncertainty Alert")
                    = (IF forecastRecs.recent[i].data.mape.v > 20000 THEN 1 ELSE 0)

====
